---- MODULE Spec2Model ----
(***************************************************************************)
(* A model of the WhatsApp bot of src/index.js.  The file holds two        *)
(* programs: the auto-reconnect variant (lines 1-471) and the              *)
(* pairing-enabled variant (lines 473-748).  `variant' selects which of    *)
(* the two is started; every action below is the translation of one        *)
(* callback, HTTP handler or continuation of an await of that program.     *)
(* The first program does not parse (the template literal opened at line   *)
(* 201 is ended by the first back-tick of line 402): started, it ends      *)
(* before any of its statements has run, and none of its callbacks has a   *)
(* step.                                                                   *)
(*                                                                         *)
(* JavaScript strings are sequences of one-character strings, JavaScript   *)
(* values are records tagged with their type.                              *)
(***************************************************************************)
EXTENDS Integers, Sequences, FiniteSets, TLC

VARIABLES
    variant,        \* 1: first program (auto-reconnect), 2: second (pairing)
    PREFIX,         \* process.env.PREFIX || '!'
    input,          \* the input under test of the single-input specifications
    isReady,        \* let isReady
    clientStatus,   \* let clientStatus
    qrCodeData,     \* let qrCodeData
    pairingCode,    \* let pairingCode (second program only)
    qrCount,        \* number of qr events received so far
    qrPending,      \* qr callbacks suspended at `await qrcode.toDataURL(qr)'
    pairCount,      \* number of POST /api/request-pairing requests so far
    pairPending,    \* handlers suspended at `await client.requestPairingCode'
    response,       \* the HTTP response written by the step just taken, if any
    msgs,           \* one record per message callback started so far
    startupInit,    \* the promise of the client.initialize() made at startup,
                    \* "none" when that call was never made
    timers,         \* ids of the pending setTimeout callbacks of the disconnected handler
    reconnectInits, \* ids of the timers whose client.initialize() call is in flight
    unhandled,      \* a promise was rejected with no handler attached
    running,        \* the process has not exited
    disconnected,   \* a disconnected event was handled and no ready event since
    sendFiles,      \* GET / requests that Express has not answered yet
    now,            \* the clock Date.now() reads, in milliseconds
    signalHandlers  \* one record per SIGINT/SIGTERM handler started so far

statusVars == <<isReady, clientStatus, qrCodeData, pairingCode>>
qrVars     == <<qrCount, qrPending>>
pairVars   == <<pairCount, pairPending>>
initVars   == <<startupInit, timers, reconnectInits>>
procVars   == <<unhandled, running>>
confVars   == <<variant, PREFIX, input>>
sysVars    == <<now, signalHandlers>>
vars == <<confVars, statusVars, qrVars, pairVars, response, msgs, initVars, procVars,
          disconnected, sendFiles, sysVars>>

(***************************************************************************)
(* Bounds of the model.                                                    *)
(***************************************************************************)
MaxQr    == 2   \* qr events delivered in one run
MaxPair  == 2   \* pairing requests made in one run
MaxMsgs  == 2   \* message events delivered in one run
MaxTimers == 2  \* reconnect timers pending plus timer-made initialize calls in flight
MaxPhoneLen == 3 \* length of the generated phone-number strings
MaxSignals == 2  \* SIGINT and SIGTERM signals delivered in one run
MaxClock == 2    \* the latest reading of the clock, in milliseconds after the start
MaxSendFiles == 1 \* GET / requests waiting for their answer at one time

(***************************************************************************)
(* JavaScript values.                                                      *)
(***************************************************************************)
Null      == [type |-> "null"]
Undefined == [type |-> "undefined"]
Str(s)    == [type |-> "string", value |-> s]
Num(n)    == [type |-> "number", value |-> n]

\* ToBoolean: null, undefined, "" and 0 are falsy.
Truthy(v) ==
    CASE v.type = "null"      -> FALSE
      [] v.type = "undefined" -> FALSE
      [] v.type = "string"    -> v.value # <<>>
      [] v.type = "number"    -> v.value # 0
      [] OTHER                -> TRUE

(***************************************************************************)
(* String functions used by the program.                                   *)
(***************************************************************************)
UpperLetters == <<"A","B","C","D","E","F","G","H","I","J","K","L","M",
                  "N","O","P","Q","R","S","T","U","V","W","X","Y","Z">>
LowerLetters == <<"a","b","c","d","e","f","g","h","i","j","k","l","m",
                  "n","o","p","q","r","s","t","u","v","w","x","y","z">>
Digits == {"0","1","2","3","4","5","6","7","8","9"}

\* The white space String.prototype.trim removes, as far as the texts of the
\* model hold it.
WhiteSpace == {" ", "\t", "\n", "\r"}

LowerChar(c) ==
    IF \E i \in 1..26 : UpperLetters[i] = c
    THEN LowerLetters[CHOOSE i \in 1..26 : UpperLetters[i] = c]
    ELSE c

\* String.prototype.toLowerCase
ToLowerCase(s) == [i \in 1..Len(s) |-> LowerChar(s[i])]

RECURSIVE TrimStart(_)
TrimStart(s) ==
    IF s # <<>> /\ Head(s) \in WhiteSpace THEN TrimStart(Tail(s)) ELSE s

RECURSIVE TrimEnd(_)
TrimEnd(s) ==
    IF s # <<>> /\ s[Len(s)] \in WhiteSpace
    THEN TrimEnd(SubSeq(s, 1, Len(s) - 1))
    ELSE s

\* String.prototype.trim
Trim(s) == TrimEnd(TrimStart(s))

\* String.prototype.startsWith
StartsWith(s, p) == Len(s) >= Len(p) /\ SubSeq(s, 1, Len(p)) = p

\* String.prototype.slice(n) for 0 <= n
Slice(s, n) == SubSeq(s, n + 1, Len(s))

\* s.split(/ +/): the pieces of s between maximal runs of U+0020.
RECURSIVE SplitSpaces(_)
SplitSpaces(s) ==
    IF \A i \in 1..Len(s) : s[i] # " "
    THEN <<s>>
    ELSE LET i == CHOOSE k \in 1..Len(s) :
                      s[k] = " " /\ \A j \in 1..(k - 1) : s[j] # " "
             j == CHOOSE k \in i..Len(s) :
                      /\ \A m \in i..k : s[m] = " "
                      /\ (k = Len(s) \/ s[k + 1] # " ")
         IN  <<SubSeq(s, 1, i - 1)>> \o SplitSpaces(SubSeq(s, j + 1, Len(s)))

\* A faulty variant of ReplaceNonDigits: the regular expression without its
\* g flag, which removes the first non-digit only.
RECURSIVE ReplaceFirstNonDigit(_)
ReplaceFirstNonDigit(s) ==
    IF s = <<>> THEN <<>>
    ELSE IF Head(s) \in Digits
         THEN <<Head(s)>> \o ReplaceFirstNonDigit(Tail(s))
         ELSE Tail(s)

\* phoneNumber.replace(/\D/g, ''): every character that is not 0-9 removed.
RECURSIVE ReplaceNonDigits(_)
ReplaceNonDigits(s) ==
    IF s = <<>> THEN <<>>
    ELSE IF Head(s) \in Digits
         THEN <<Head(s)>> \o ReplaceNonDigits(Tail(s))
         ELSE ReplaceNonDigits(Tail(s))

(***************************************************************************)
(* Collaborators outside the repository, modelled by what they return.     *)
(***************************************************************************)
\* The raw challenge string the n-th qr event carries (whatsapp-web.js).
QrChallenges == <<"2@challenge-1", "2@challenge-2", "2@challenge-3", "2@challenge-4">>

\* What qrcode.toDataURL(qr) resolves to: a non-empty data URL of the image.
ToDataURL(qr) == Str(<<"data:image/png;base64,", qr>>)

\* What the n-th client.requestPairingCode call resolves to.
PairingCodes == <<"ABCD1234", "EFGH5678", "JKLM9012", "NPQR3456">>

\* `Loading... ${percent}%'
Percents == {0, 100}
LoadingStatus(percent) ==
    IF percent = 0 THEN "Loading... 0%" ELSE "Loading... 100%"

AuthenticatedStatus ==
    IF variant = 1 THEN "Authenticated - Loading..." ELSE "Authenticated"

\* An HTTP response: res.status(code).json(body).
Response(route, code, body) == [route |-> route, code |-> code, body |-> body]

NoResponse == Response("none", 0, [none |-> TRUE])

(***************************************************************************)
(* Session lifecycle callbacks.                                            *)
(***************************************************************************)
\* client.on('qr'): the synchronous part, up to the await.
QrEvent ==
    /\ running
    /\ qrCount < MaxQr
    /\ qrCount' = qrCount + 1
    /\ clientStatus' = "QR Code Ready - Scan to connect"
    /\ qrPending' = qrPending \cup {qrCount + 1}
    /\ UNCHANGED <<isReady, qrCodeData, pairingCode>>
    /\ UNCHANGED <<confVars, pairVars, msgs, initVars, procVars>>
    /\ response' = NoResponse
    /\ UNCHANGED <<disconnected, sendFiles, sysVars>>

\* qrcode.toDataURL resolved: `qrCodeData = await ...' assigns.
QrEncoded(n) ==
    /\ running
    /\ n \in qrPending
    /\ qrPending' = qrPending \ {n}
    /\ qrCodeData' = ToDataURL(QrChallenges[n])
    /\ UNCHANGED <<isReady, clientStatus, pairingCode, qrCount>>
    /\ UNCHANGED <<confVars, pairVars, msgs, initVars, procVars>>
    /\ response' = NoResponse
    /\ UNCHANGED <<disconnected, sendFiles, sysVars>>

\* qrcode.toDataURL rejected: the catch block logs.
QrEncodeFailed(n) ==
    /\ running
    /\ n \in qrPending
    /\ qrPending' = qrPending \ {n}
    /\ UNCHANGED <<statusVars, qrCount>>
    /\ UNCHANGED <<confVars, pairVars, msgs, initVars, procVars>>
    /\ response' = NoResponse
    /\ UNCHANGED <<disconnected, sendFiles, sysVars>>

\* client.on('ready')
ReadyEvent ==
    /\ running
    /\ isReady' = TRUE
    /\ clientStatus' = "Connected and Ready"
    /\ qrCodeData' = Null
    /\ pairingCode' = Null
    /\ UNCHANGED <<confVars, qrVars, pairVars, msgs, initVars, procVars>>
    /\ response' = NoResponse
    /\ disconnected' = FALSE
    /\ UNCHANGED <<sendFiles, sysVars>>

\* client.on('authenticated')
AuthenticatedEvent ==
    /\ running
    /\ clientStatus' = AuthenticatedStatus
    /\ UNCHANGED <<isReady, qrCodeData, pairingCode>>
    /\ UNCHANGED <<confVars, qrVars, pairVars, msgs, initVars, procVars>>
    /\ response' = NoResponse
    /\ UNCHANGED <<disconnected, sendFiles, sysVars>>

\* client.on('auth_failure'): the first program also clears the QR image.
AuthFailureEvent ==
    /\ running
    /\ clientStatus' = "Authentication Failed"
    /\ qrCodeData' = IF variant = 1 THEN Null ELSE qrCodeData
    /\ UNCHANGED <<isReady, pairingCode>>
    /\ UNCHANGED <<confVars, qrVars, pairVars, msgs, initVars, procVars>>
    /\ response' = NoResponse
    /\ UNCHANGED <<disconnected, sendFiles, sysVars>>

\* The ids setTimeout can hand out: those of no pending timer and of no
\* initialize call in flight.
FreeTimerIds == (1..MaxTimers) \ (timers \cup reconnectInits)

NextTimerId == CHOOSE t \in FreeTimerIds : \A u \in FreeTimerIds : t <= u

\* A faulty variant of DisconnectedEvent: isReady is left as it was.
DisconnectedKeepsReady ==
    /\ running
    /\ variant = 1 => FreeTimerIds # {}
    /\ clientStatus' = "Disconnected"
    /\ qrCodeData' = IF variant = 1 THEN Null ELSE qrCodeData
    /\ timers' = IF variant = 1 THEN timers \cup {NextTimerId} ELSE timers
    /\ UNCHANGED <<isReady, pairingCode, startupInit, reconnectInits, procVars>>
    /\ UNCHANGED <<confVars, qrVars, pairVars, msgs>>
    /\ response' = NoResponse
    /\ disconnected' = TRUE
    /\ UNCHANGED <<sendFiles, sysVars>>

\* client.on('disconnected'): the first program clears the QR image and
\* schedules client.initialize() with setTimeout.
DisconnectedEvent ==
    /\ running
    /\ variant = 1 => FreeTimerIds # {}
    /\ isReady' = FALSE
    /\ clientStatus' = "Disconnected"
    /\ qrCodeData' = IF variant = 1 THEN Null ELSE qrCodeData
    /\ timers' = IF variant = 1 THEN timers \cup {NextTimerId} ELSE timers
    /\ UNCHANGED <<pairingCode, startupInit, reconnectInits, procVars>>
    /\ UNCHANGED <<confVars, qrVars, pairVars, msgs>>
    /\ response' = NoResponse
    /\ disconnected' = TRUE
    /\ UNCHANGED <<sendFiles, sysVars>>

\* client.on('loading_screen')
LoadingScreenEvent(percent) ==
    /\ running
    /\ clientStatus' = LoadingStatus(percent)
    /\ UNCHANGED <<isReady, qrCodeData, pairingCode>>
    /\ UNCHANGED <<confVars, qrVars, pairVars, msgs, initVars, procVars>>
    /\ response' = NoResponse
    /\ UNCHANGED <<disconnected, sendFiles, sysVars>>

\* An unhandled promise rejection: Node.js 15 and later end the process,
\* earlier versions print a warning and go on.
UnhandledRejectionOutcomes == {TRUE, FALSE}

(***************************************************************************)
(* client.initialize()                                                     *)
(***************************************************************************)
\* The startup call resolved.
StartupInitResolved ==
    /\ running
    /\ startupInit = "pending"
    /\ startupInit' = "resolved"
    /\ UNCHANGED <<timers, reconnectInits, procVars>>
    /\ UNCHANGED <<confVars, statusVars, qrVars, pairVars, msgs>>
    /\ response' = NoResponse
    /\ UNCHANGED <<disconnected, sendFiles, sysVars>>

\* The startup call rejected: its .catch sets the status.
StartupInitRejected ==
    /\ running
    /\ startupInit = "pending"
    /\ startupInit' = "rejected"
    /\ clientStatus' = "Initialization Failed"
    /\ UNCHANGED <<isReady, qrCodeData, pairingCode>>
    /\ UNCHANGED <<timers, reconnectInits, procVars>>
    /\ UNCHANGED <<confVars, qrVars, pairVars, msgs>>
    /\ response' = NoResponse
    /\ UNCHANGED <<disconnected, sendFiles, sysVars>>

\* The reconnect timer t fires (first program): client.initialize() is
\* called and its promise is dropped.
ReconnectTimerFires(t) ==
    /\ running
    /\ t \in timers
    /\ timers' = timers \ {t}
    /\ reconnectInits' = reconnectInits \cup {t}
    /\ UNCHANGED <<startupInit, procVars>>
    /\ UNCHANGED <<confVars, statusVars, qrVars, pairVars, msgs>>
    /\ response' = NoResponse
    /\ UNCHANGED <<disconnected, sendFiles, sysVars>>

\* The initialize() call of timer t resolved.
ReconnectInitResolved(t) ==
    /\ running
    /\ t \in reconnectInits
    /\ reconnectInits' = reconnectInits \ {t}
    /\ UNCHANGED <<startupInit, timers, procVars>>
    /\ UNCHANGED <<confVars, statusVars, qrVars, pairVars, msgs>>
    /\ response' = NoResponse
    /\ UNCHANGED <<disconnected, sendFiles, sysVars>>

\* The initialize() call of timer t rejected: no handler is attached to the
\* promise.
ReconnectInitRejected(t) ==
    /\ running
    /\ t \in reconnectInits
    /\ reconnectInits' = reconnectInits \ {t}
    /\ unhandled' = TRUE
    /\ running' \in UnhandledRejectionOutcomes
    /\ UNCHANGED <<startupInit, timers>>
    /\ UNCHANGED <<confVars, statusVars, qrVars, pairVars, msgs>>
    /\ response' = NoResponse
    /\ UNCHANGED <<disconnected, sendFiles, sysVars>>

(***************************************************************************)
(* HTTP API.                                                               *)
(***************************************************************************)
\* GET /api/status
ApiStatus ==
    Response("/api/status", 200,
        IF variant = 1
        THEN [status |-> clientStatus, isReady |-> isReady,
              hasQR |-> qrCodeData # Null, prefix |-> PREFIX]
        ELSE [status |-> clientStatus, isReady |-> isReady,
              hasQR |-> qrCodeData # Null,
              hasPairingCode |-> pairingCode # Null, prefix |-> PREFIX])

\* A faulty variant of ApiQr: the image is withheld once the bot is ready.
ApiQrUnlessReady ==
    IF Truthy(qrCodeData) /\ ~isReady
    THEN Response("/api/qr", 200, [qr |-> qrCodeData])
    ELSE Response("/api/qr", 404, [error |-> "QR code not available"])

\* GET /api/qr
ApiQr ==
    IF Truthy(qrCodeData)
    THEN Response("/api/qr", 200, [qr |-> qrCodeData])
    ELSE Response("/api/qr", 404, [error |-> "QR code not available"])

\* GET /api/health
ApiHealth ==
    Response("/api/health", 200,
        [status |-> "ok", bot |-> IF isReady THEN "ready" ELSE "not ready"])

\* GET /: nothing is written in the turn that takes the request.  In the
\* second program express.static('public') and then the route handler hand
\* the request to the file system; res.sendFile returns at once.
Dashboard == NoResponse

ApiRoutes == {"/api/status", "/api/qr", "/api/health"}

ReadRoutes == {"/"} \cup ApiRoutes

ReadResponse(route) ==
    CASE route = "/"            -> Dashboard
      [] route = "/api/status"  -> ApiStatus
      [] route = "/api/qr"      -> ApiQr
      [] route = "/api/health"  -> ApiHealth

\* A GET request.  The handler of an /api route runs to completion and
\* writes its response.  GET / has a run in the second program only, and
\* there the answer is written in a later turn; the handler of the first
\* program (lines 200-417) does not parse: the template literal opened at
\* line 201 is ended by the first back-tick of line 402.
Get(route) ==
    /\ running
    /\ route = "/" => (variant = 2 /\ sendFiles < MaxSendFiles)
    /\ response' = ReadResponse(route)
    /\ sendFiles' = IF route = "/" THEN sendFiles + 1 ELSE sendFiles
    /\ UNCHANGED <<confVars, statusVars, qrVars, pairVars, msgs, initVars, procVars>>
    /\ UNCHANGED <<disconnected, sysVars>>

\* The answers Express gives to GET / in the second program: 200 with the
\* file when public/index.html can be read, 404 when it cannot.  The file
\* is not part of the sources, so either answer can come.
SendFileCodes == {200, 404}

\* Express answers one waiting GET / request.
SendFileDone(code) ==
    /\ running
    /\ sendFiles > 0
    /\ sendFiles' = sendFiles - 1
    /\ response' = Response("/", code,
           IF code = 200 THEN [file |-> "public/index.html"]
                         ELSE [error |-> "Not Found"])
    /\ UNCHANGED <<confVars, statusVars, qrVars, pairVars, msgs, initVars, procVars>>
    /\ UNCHANGED <<disconnected, sysVars>>

\* The dashboard page: the request and its answer.
Page ==
    \/ Get("/")
    \/ \E code \in SendFileCodes : SendFileDone(code)

(***************************************************************************)
(* POST /api/request-pairing (second program).                             *)
(***************************************************************************)
\* The request bodies tried: req.body as express.json() leaves it.
NoBody == [type |-> "undefined"]
JsonBody(phoneNumber) == [type |-> "object", phoneNumber |-> phoneNumber]

PhoneNumbers ==
    { Undefined,
      Str(<<>>),
      Num(12345),
      Str(<<"+","1"," ","(","2","3","4",")"," ","5","6","7","-","8","9","0","0">>),
      Str(<<"n","/","a">>) }

RequestBodies == {NoBody} \cup {JsonBody(p) : p \in PhoneNumbers}

PairingError(details) ==
    Response("/api/request-pairing", 500,
        [error |-> "Failed to generate pairing code", details |-> details])

\* The handler up to its first await, or to its response when it has none.
RequestPairing(body) ==
    /\ running
    /\ variant = 2
    /\ pairCount < MaxPair
    /\ pairCount' = pairCount + 1
    /\ IF body.type = "undefined"
       THEN \* `const { phoneNumber } = req.body' throws a TypeError
            /\ response' = PairingError("TypeError")
            /\ UNCHANGED pairPending
       ELSE IF ~Truthy(body.phoneNumber)
       THEN /\ response' = Response("/api/request-pairing", 400,
                               [error |-> "Phone number is required"])
            /\ UNCHANGED pairPending
       ELSE IF body.phoneNumber.type # "string"
       THEN \* phoneNumber.replace is not a function
            /\ response' = PairingError("TypeError")
            /\ UNCHANGED pairPending
       ELSE LET cleanNumber == ReplaceNonDigits(body.phoneNumber.value)
            IN  /\ pairPending' = pairPending \cup
                       {[id |-> pairCount + 1,
                         phoneNumber |-> body.phoneNumber.value,
                         cleanNumber |-> cleanNumber]}
                /\ response' = NoResponse
    /\ UNCHANGED <<confVars, statusVars, qrVars, msgs, initVars, procVars>>
    /\ UNCHANGED <<disconnected, sendFiles, sysVars>>

\* client.requestPairingCode resolved with a code.
PairingResolved(n) ==
    /\ running
    /\ \E r \in pairPending : r.id = n
    /\ pairPending' = {r \in pairPending : r.id # n}
    /\ pairingCode' = Str(PairingCodes[n])
    /\ response' = Response("/api/request-pairing", 200,
                       [success |-> TRUE, code |-> Str(PairingCodes[n]),
                        message |-> "Pairing code generated successfully"])
    /\ UNCHANGED <<isReady, clientStatus, qrCodeData, pairCount>>
    /\ UNCHANGED <<confVars, qrVars, msgs, initVars, procVars>>
    /\ UNCHANGED <<disconnected, sendFiles, sysVars>>

\* A faulty variant of PairingRejected: the catch block also drops the
\* stored pairing code.
PairingRejectedClearsCode(n) ==
    /\ running
    /\ \E r \in pairPending : r.id = n
    /\ pairPending' = {r \in pairPending : r.id # n}
    /\ response' = PairingError("Error")
    /\ pairingCode' = Null
    /\ UNCHANGED <<isReady, clientStatus, qrCodeData, pairCount>>
    /\ UNCHANGED <<confVars, qrVars, msgs, initVars, procVars>>
    /\ UNCHANGED <<disconnected, sendFiles, sysVars>>

\* client.requestPairingCode rejected: the catch block answers 500.
PairingRejected(n) ==
    /\ running
    /\ \E r \in pairPending : r.id = n
    /\ pairPending' = {r \in pairPending : r.id # n}
    /\ response' = PairingError("Error")
    /\ UNCHANGED <<statusVars, pairCount>>
    /\ UNCHANGED <<confVars, qrVars, msgs, initVars, procVars>>
    /\ UNCHANGED <<disconnected, sendFiles, sysVars>>

(***************************************************************************)
(* Command dispatcher: client.on('message') and the four handlers.         *)
(***************************************************************************)
\* `command': the first piece of the text after the prefix, in lower case.
\* body is the trimmed message text and starts with the prefix.
ParseCommand(prefix, body) ==
    LET args == SplitSpaces(Trim(Slice(body, Len(prefix))))
    IN  ToLowerCase(Head(args))

CommandNames ==
    { <<"p","i","n","g">>, <<"a","l","i","v","e">>,
      <<"o","w","n","e","r">>, <<"h","e","l","p">> }

\* A faulty variant of Handler: a default case that answers with the help.
HandlerWithDefault(command) ==
    CASE command = <<"p","i","n","g">>     -> "ping"
      [] command = <<"a","l","i","v","e">> -> "alive"
      [] command = <<"o","w","n","e","r">> -> "owner"
      [] OTHER                             -> "help"

\* The switch statement: the handler a command name selects, "none" when no
\* case matches.
Handler(command) ==
    CASE command = <<"p","i","n","g">>     -> "ping"
      [] command = <<"a","l","i","v","e">> -> "alive"
      [] command = <<"o","w","n","e","r">> -> "owner"
      [] command = <<"h","e","l","p">>     -> "help"
      [] OTHER                             -> "none"

\* A faulty variant of Dispatch: the `if (!isReady) return' is missing.
DispatchIgnoringReady(ready, prefix, text) ==
    LET body == Trim(text)
    IN  IF ~StartsWith(body, prefix) THEN "none"
        ELSE Handler(ParseCommand(prefix, body))

\* A faulty variant of Dispatch: the `if (!body.startsWith(PREFIX)) return'
\* is missing.
DispatchIgnoringPrefix(ready, prefix, text) ==
    IF ~ready THEN "none"
    ELSE Handler(ParseCommand(prefix, Trim(text)))

\* The handler the callback invokes for a message text, "none" when it
\* returns without invoking one.
Dispatch(ready, prefix, text) ==
    IF ~ready THEN "none"
    ELSE LET body == Trim(text)
         IN  IF ~StartsWith(body, prefix) THEN "none"
             ELSE Handler(ParseCommand(prefix, body))

\* Outbound operations on the client.
Reply(text) == [op |-> "reply", text |-> text]
Edit(text)  == [op |-> "edit", text |-> text]

PingPlaceholder == Reply("Pinging...")

\* `Pong! Latency: ${latency}ms': a second reply in the first program, an
\* edit of the placeholder in the second.
Pong(latency) ==
    [op |-> IF variant = 1 THEN "reply" ELSE "edit",
     text |-> "Pong!", latency |-> latency]
ErrorReply == Reply("An error occurred while processing your command.")

HandlerReply(handler) ==
    CASE handler = "alive" -> Reply("Bot is Alive!")
      [] handler = "owner" -> Reply("Bot Owner Information")
      [] handler = "help"  -> Reply("Available Commands")

\* The callback started for a message: what it has done when it first
\* suspends at an await or returns.
\*   ready:   isReady when the message was delivered
\*   handler: the handler invoked, "none" when none was
\*   pc:      where the callback is suspended, "done" when it has returned
\*   sent:    the outbound operations issued for the message, in order
\*   raised:  the handler raised an error (the catch block was entered)
\*   start:   `const start = Date.now()' of handlePing, 0 for another handler
\*   afterError: an earlier callback had already entered its catch block
\*            when this message was delivered (history, read by no code)
StartCallback(ready, prefix, text, afterError) ==
    LET handler == Dispatch(ready, prefix, text)
    IN  [text |-> text, ready |-> ready, handler |-> handler,
         pc   |-> CASE handler = "none" -> "done"
                    [] handler = "ping" -> "ping:placeholder"
                    [] OTHER            -> "handler:reply",
         sent |-> CASE handler = "none" -> <<>>
                    [] handler = "ping" -> <<PingPlaceholder>>
                    [] OTHER            -> <<HandlerReply(handler)>>,
         raised |-> FALSE, afterError |-> afterError,
         start |-> IF handler = "ping" THEN now ELSE 0]

\* catch (error): the generic reply is attempted.
CatchHandlerError(m) ==
    [m EXCEPT !.raised = TRUE, !.sent = Append(@, ErrorReply),
              !.pc = "catch:reply"]

\* A faulty variant of CatchReplyError: the generic reply is not wrapped in
\* a try block, so its failure leaves the callback.
CatchReplyErrorRethrows(m) == [m EXCEPT !.pc = "unhandled"]

\* catch (e) around the generic reply: logged, the callback returns.
CatchReplyError(m) == [m EXCEPT !.pc = "done"]

\* The awaited send of callback m completed.  After the placeholder of a
\* ping: `const latency = Date.now() - start', then the pong is issued.
AfterSend(m) ==
    CASE m.pc = "ping:placeholder" ->
             [m EXCEPT !.sent = Append(@, Pong(now - m.start)),
                       !.pc = "ping:pong"]
      [] m.pc \in {"ping:pong", "handler:reply", "catch:reply"} ->
             [m EXCEPT !.pc = "done"]

\* The awaited send of callback m failed.
AfterSendError(m) ==
    CASE m.pc \in {"ping:placeholder", "ping:pong", "handler:reply"} ->
             CatchHandlerError(m)
      [] m.pc = "catch:reply" -> CatchReplyError(m)

Suspended(m) == m.pc \notin {"done", "unhandled"}

\* A faulty variant of MessageEvent: a message delivered while an earlier
\* callback is suspended at an await is dropped.
MessageEventDropsWhenBusy(text) ==
    /\ running
    /\ Len(msgs) < MaxMsgs
    /\ msgs' = Append(msgs,
           IF \E k \in 1..Len(msgs) : Suspended(msgs[k])
           THEN [StartCallback(FALSE, PREFIX, text, FALSE)
                    EXCEPT !.ready = isReady]
           ELSE StartCallback(isReady, PREFIX, text,
                              \E k \in 1..Len(msgs) : msgs[k].raised))
    /\ response' = NoResponse
    /\ UNCHANGED <<confVars, statusVars, qrVars, pairVars, initVars, procVars>>
    /\ UNCHANGED <<disconnected, sendFiles, sysVars>>

\* client.on('message')
MessageEvent(text) ==
    /\ running
    /\ Len(msgs) < MaxMsgs
    /\ msgs' = Append(msgs, StartCallback(isReady, PREFIX, text,
                                  \E k \in 1..Len(msgs) : msgs[k].raised))
    /\ response' = NoResponse
    /\ UNCHANGED <<confVars, statusVars, qrVars, pairVars, initVars, procVars>>
    /\ UNCHANGED <<disconnected, sendFiles, sysVars>>

\* message.reply / sent.edit resolved.
SendResolved(i) ==
    /\ running
    /\ i \in 1..Len(msgs)
    /\ Suspended(msgs[i])
    /\ msgs' = [msgs EXCEPT ![i] = AfterSend(msgs[i])]
    /\ response' = NoResponse
    /\ UNCHANGED <<confVars, statusVars, qrVars, pairVars, initVars, procVars>>
    /\ UNCHANGED <<disconnected, sendFiles, sysVars>>

\* A faulty variant of SendRejected: the failed send also marks the bot as
\* not ready.
SendRejectedDropsReady(i) ==
    /\ running
    /\ i \in 1..Len(msgs)
    /\ Suspended(msgs[i])
    /\ msgs' = [msgs EXCEPT ![i] = AfterSendError(msgs[i])]
    /\ isReady' = FALSE
    /\ response' = NoResponse
    /\ UNCHANGED <<clientStatus, qrCodeData, pairingCode>>
    /\ UNCHANGED <<confVars, qrVars, pairVars, initVars, procVars>>
    /\ UNCHANGED <<disconnected, sendFiles, sysVars>>

\* message.reply / sent.edit rejected.
SendRejected(i) ==
    /\ running
    /\ i \in 1..Len(msgs)
    /\ Suspended(msgs[i])
    /\ msgs' = [msgs EXCEPT ![i] = AfterSendError(msgs[i])]
    /\ IF AfterSendError(msgs[i]).pc = "unhandled"
       THEN unhandled' = TRUE /\ running' \in UnhandledRejectionOutcomes
       ELSE UNCHANGED procVars
    /\ response' = NoResponse
    /\ UNCHANGED <<confVars, statusVars, qrVars, pairVars, initVars>>
    /\ UNCHANGED <<disconnected, sendFiles, sysVars>>

\* The placeholder was sent but the Message it resolved to has no edit
\* method (second program): `sent.edit(...)' throws a TypeError.
EditUnavailable(i) ==
    /\ running
    /\ variant = 2
    /\ i \in 1..Len(msgs)
    /\ msgs[i].pc = "ping:placeholder"
    /\ msgs' = [msgs EXCEPT ![i] = CatchHandlerError(msgs[i])]
    /\ response' = NoResponse
    /\ UNCHANGED <<confVars, statusVars, qrVars, pairVars, initVars, procVars>>
    /\ UNCHANGED <<disconnected, sendFiles, sysVars>>

\* The message texts delivered in the runs of the whole program.
Texts ==
    { <<"!","p","i","n","g">>,
      <<" ","!","H","e","l","p"," ","m","e">>,
      <<"p","i","n","g">> }

(***************************************************************************)
(* The clock.  Date.now() reads the wall clock: between any two steps it   *)
(* advances as time passes, or reads earlier when the system time is set   *)
(* back.                                                                   *)
(***************************************************************************)
Tick ==
    /\ running
    /\ now' \in (0..MaxClock) \ {now}
    /\ response' = NoResponse
    /\ UNCHANGED <<confVars, statusVars, qrVars, pairVars, msgs, initVars, procVars>>
    /\ UNCHANGED <<disconnected, sendFiles, signalHandlers>>

(***************************************************************************)
(* Graceful shutdown: process.on('SIGINT') and process.on('SIGTERM').      *)
(***************************************************************************)
Signals == {"SIGINT", "SIGTERM"}

\* A faulty variant of SignalEvent: client.destroy() is called but not
\* awaited, process.exit(0) is called in the same turn.
SignalEventNoAwait(signal) ==
    /\ running
    /\ Len(signalHandlers) < MaxSignals
    /\ signalHandlers' = Append(signalHandlers,
           [signal |-> signal, pc |-> "exited", destroyed |-> FALSE])
    /\ running' = FALSE
    /\ response' = NoResponse
    /\ UNCHANGED <<confVars, statusVars, qrVars, pairVars, msgs, initVars, unhandled>>
    /\ UNCHANGED <<disconnected, sendFiles, now>>

\* A signal is delivered: the handler logs, calls client.destroy() and
\* suspends at the await.
\*   pc:        "destroy" suspended at `await client.destroy()',
\*              "exited" process.exit(0) was called,
\*              "rejected" the await threw and the handler's promise rejected
\*   destroyed: client.destroy() has completed
SignalEvent(signal) ==
    /\ running
    /\ Len(signalHandlers) < MaxSignals
    /\ signalHandlers' = Append(signalHandlers,
           [signal |-> signal, pc |-> "destroy", destroyed |-> FALSE])
    /\ response' = NoResponse
    /\ UNCHANGED <<confVars, statusVars, qrVars, pairVars, msgs, initVars, procVars>>
    /\ UNCHANGED <<disconnected, sendFiles, now>>

\* client.destroy() of handler h resolved: the handler is resumed and calls
\* process.exit(0) in the same continuation; the process is gone, with the
\* other handlers where they were.
DestroyResolved(h) ==
    /\ running
    /\ h \in 1..Len(signalHandlers)
    /\ signalHandlers[h].pc = "destroy"
    /\ signalHandlers' = [signalHandlers EXCEPT ![h].pc = "exited",
                                                ![h].destroyed = TRUE]
    /\ running' = FALSE
    /\ response' = NoResponse
    /\ UNCHANGED <<confVars, statusVars, qrVars, pairVars, msgs, initVars, unhandled>>
    /\ UNCHANGED <<disconnected, sendFiles, now>>

\* client.destroy() of handler h rejected: the async handler has no try
\* block, its promise rejects with no handler attached.
DestroyRejected(h) ==
    /\ running
    /\ h \in 1..Len(signalHandlers)
    /\ signalHandlers[h].pc = "destroy"
    /\ signalHandlers' = [signalHandlers EXCEPT ![h].pc = "rejected"]
    /\ unhandled' = TRUE
    /\ running' \in UnhandledRejectionOutcomes
    /\ response' = NoResponse
    /\ UNCHANGED <<confVars, statusVars, qrVars, pairVars, msgs, initVars>>
    /\ UNCHANGED <<disconnected, sendFiles, now>>

Shutdown ==
    \/ \E signal \in Signals : SignalEvent(signal)
    \/ \E h \in 1..MaxSignals : DestroyResolved(h)
    \/ \E h \in 1..MaxSignals : DestroyRejected(h)

(***************************************************************************)
(* The program.                                                            *)
(***************************************************************************)
DefaultPrefix == <<"!">>

\* The state after one program was started, with one configured prefix and
\* one input under test.  The second program has run its top-level code: the
\* callbacks and routes are registered and client.initialize() is pending.
\* The first program is rejected with a SyntaxError (line 402) before any
\* statement runs and the process has ended with exit code 1: no
\* initialize call was made and nothing is registered; its variables, never
\* made, are shown with the values of their declarations.
Start(v, prefix, in) ==
    /\ variant = v
    /\ PREFIX = prefix
    /\ input = in
    /\ isReady = FALSE
    /\ clientStatus = "Initializing..."
    /\ qrCodeData = Null
    /\ pairingCode = Null
    /\ qrCount = 0
    /\ qrPending = {}
    /\ pairCount = 0
    /\ pairPending = {}
    /\ response = NoResponse
    /\ msgs = <<>>
    /\ startupInit = IF v = 1 THEN "none" ELSE "pending"
    /\ timers = {}
    /\ reconnectInits = {}
    /\ unhandled = FALSE
    /\ running = (v # 1)
    /\ disconnected = FALSE
    /\ sendFiles = 0
    /\ now = 0
    /\ signalHandlers = <<>>

Init == \E v \in {1, 2} : Start(v, DefaultPrefix, <<>>)

Lifecycle ==
    \/ QrEvent
    \/ \E n \in 1..MaxQr : QrEncoded(n)
    \/ \E n \in 1..MaxQr : QrEncodeFailed(n)
    \/ ReadyEvent
    \/ AuthenticatedEvent
    \/ AuthFailureEvent
    \/ DisconnectedEvent
    \/ \E percent \in Percents : LoadingScreenEvent(percent)

Initialize ==
    \/ StartupInitResolved
    \/ StartupInitRejected

\* The reconnect timer of the first program and its initialize calls.
Reconnect ==
    \/ \E t \in 1..MaxTimers : ReconnectTimerFires(t)
    \/ \E t \in 1..MaxTimers : ReconnectInitResolved(t)
    \/ \E t \in 1..MaxTimers : ReconnectInitRejected(t)

Http ==
    \/ \E route \in ApiRoutes : Get(route)
    \/ \E body \in RequestBodies : RequestPairing(body)
    \/ \E n \in 1..MaxPair : PairingResolved(n)
    \/ \E n \in 1..MaxPair : PairingRejected(n)

Messages ==
    \/ \E text \in Texts : MessageEvent(text)
    \/ \E i \in 1..MaxMsgs : SendResolved(i)
    \/ \E i \in 1..MaxMsgs : SendRejected(i)
    \/ \E i \in 1..MaxMsgs : EditUnavailable(i)

Next ==
    Lifecycle \/ Initialize \/ Reconnect \/ Http \/ Page \/ Messages \/ Shutdown \/ Tick

\* The whole program.
Spec == Init /\ [][Next]_vars

\* The session side alone: lifecycle callbacks, the startup initialize and
\* the HTTP API (the /api routes).  The reconnect timer is set by the first
\* program only, which takes no step, so Reconnect has no step to add here.
SpecSession == Init /\ [][Lifecycle \/ Initialize \/ Http]_vars

\* The dispatcher with the callbacks that write isReady and the read
\* endpoints.
DispatchNext ==
    \/ Messages
    \/ ReadyEvent
    \/ DisconnectedEvent
    \/ \E route \in ReadRoutes : Get(route)
    \/ \E code \in SendFileCodes : SendFileDone(code)

SpecDispatch == Init /\ [][DispatchNext]_vars

(***************************************************************************)
(* Specifications of one input: the dispatcher applied to one message      *)
(* text, the pairing request applied to one phone number.                  *)
(***************************************************************************)
Prefixes == {DefaultPrefix, <<"/","/">>}

Leads  == {<<>>, <<" ">>, <<"\n">>}
Starts == {<<>>, <<"!">>, <<"/","/">>}
Gaps   == {<<>>, <<" ">>}
Words  == { <<>>, <<"p","i","n","g">>, <<"P","i","N","g">>,
            <<"a","l","i","v","e">>, <<"O","W","N","E","R">>,
            <<"H","e","l","p">>, <<"p","i","n">>, <<"p","i","n","g","s">> }
Tails  == { <<>>, <<" ","x">>, <<"\t","x">>, <<"\n","x">>,
            <<" "," ","p","i","n","g"," ">> }

TextInputs ==
    { l \o p \o g \o w \o t :
        l \in Leads, p \in Starts, g \in Gaps, w \in Words, t \in Tails }

InitText ==
    \E v \in {1, 2}, prefix \in Prefixes, text \in TextInputs :
        Start(v, prefix, text)

TextNext ==
    \/ MessageEvent(input)
    \/ \E i \in 1..MaxMsgs : SendResolved(i)
    \/ \E i \in 1..MaxMsgs : SendRejected(i)
    \/ \E i \in 1..MaxMsgs : EditUnavailable(i)
    \/ ReadyEvent

SpecText == InitText /\ [][TextNext]_vars

\* The ping command under a running clock.
InitPing == \E v \in {1, 2} : Start(v, DefaultPrefix, <<"!","p","i","n","g">>)

PingNext == TextNext \/ Tick

SpecPing == InitPing /\ [][PingNext]_vars

(***************************************************************************)
(* The QR challenges alone: qr events and their encodings, with the        *)
(* callbacks that write the status only and the endpoints that show the    *)
(* image.  No ready, auth_failure or disconnected event is delivered.      *)
(***************************************************************************)
QrNext ==
    \/ QrEvent
    \/ \E n \in 1..MaxQr : QrEncoded(n)
    \/ \E n \in 1..MaxQr : QrEncodeFailed(n)
    \/ AuthenticatedEvent
    \/ \E percent \in Percents : LoadingScreenEvent(percent)
    \/ Get("/api/qr")
    \/ Get("/api/status")

SpecQr == Init /\ [][QrNext]_vars

PhoneAlphabet == {"0", "7", "+", " ", "-", "a"}

RECURSIVE StringsUpTo(_)
StringsUpTo(n) ==
    IF n = 0 THEN {<<>>}
    ELSE LET shorter == StringsUpTo(n - 1)
         IN  shorter \cup {Append(s, c) : s \in shorter, c \in PhoneAlphabet}

ExamplePhone ==
    <<"+","1"," ","(","2","3","4",")"," ","5","6","7","-","8","9","0","0">>

PhoneInputs == StringsUpTo(MaxPhoneLen) \cup {ExamplePhone}

InitPhone == \E phone \in PhoneInputs : Start(2, DefaultPrefix, phone)

PhoneNext ==
    \/ RequestPairing(JsonBody(Str(input)))
    \/ \E n \in 1..MaxPair : PairingResolved(n)
    \/ \E n \in 1..MaxPair : PairingRejected(n)
    \/ ReadyEvent

SpecPhone == InitPhone /\ [][PhoneNext]_vars

(***************************************************************************)
(* The lifecycle callbacks with the dispatcher applied to one message      *)
(* text and GET /api/health.                                               *)
(***************************************************************************)
InitDisconnect ==
    \E v \in {1, 2}, text \in Texts : Start(v, DefaultPrefix, text)

DisconnectNext ==
    \/ ReadyEvent
    \/ AuthenticatedEvent
    \/ AuthFailureEvent
    \/ DisconnectedEvent
    \/ \E percent \in Percents : LoadingScreenEvent(percent)
    \/ StartupInitRejected
    \/ MessageEvent(input)
    \/ \E i \in 1..MaxMsgs : SendResolved(i)
    \/ Get("/api/health")

SpecDisconnect == InitDisconnect /\ [][DisconnectNext]_vars

(***************************************************************************)
(* Shutdown while the session goes on: the signal handlers with the        *)
(* callbacks that write isReady and GET /api/health.  Every                *)
(* client.destroy() call made is settled in the end: it resolves or it     *)
(* rejects, unless the process has exited meanwhile.                       *)
(***************************************************************************)
ShutdownNext ==
    \/ Shutdown
    \/ ReadyEvent
    \/ DisconnectedEvent
    \/ Get("/api/health")

SpecShutdown ==
    /\ Init /\ [][ShutdownNext]_vars
    /\ \A h \in 1..MaxSignals : WF_vars(DestroyResolved(h) \/ DestroyRejected(h))

(***************************************************************************)
(* Properties.                                                             *)
(***************************************************************************)
PairingRoute == "/api/request-pairing"

\* C1: whenever isReady is true, qrCodeData and pairingCode are both null,
\* and GET /api/status shows hasQR = false and hasPairingCode = false.
C1_ReadyImpliesCleared ==
    isReady =>
        /\ qrCodeData = Null
        /\ pairingCode = Null
        /\ ~ApiStatus.body.hasQR
        /\ variant = 2 => ~ApiStatus.body.hasPairingCode

\* C2: in the pairing-enabled program at most one of qrCodeData and
\* pairingCode is populated.
C2_AtMostOnePopulated ==
    variant = 2 => ~(qrCodeData # Null /\ pairingCode # Null)

\* C3: a message delivered while isReady is false is discarded: no handler
\* is invoked for it and nothing is ever sent for it, whatever its text and
\* whatever happens afterwards.
C3_NotReadyDiscards ==
    \A i \in 1..Len(msgs) :
        ~msgs[i].ready =>
            /\ msgs[i].handler = "none"
            /\ msgs[i].sent = <<>>
            /\ msgs[i].pc = "done"
            /\ ~msgs[i].raised

\* A ping command delivered after the bot was ready and then disconnected
\* stays unanswered although the bot is ready again, while the ping
\* delivered before the disconnection was answered.
C3_Witness ==
    /\ isReady
    /\ \E i, j \in 1..Len(msgs) :
        /\ j < i
        /\ msgs[j].ready /\ msgs[j].handler = "ping" /\ msgs[j].sent # <<>>
        /\ ~msgs[i].ready /\ msgs[i].text = msgs[j].text
        /\ msgs[i].sent = <<>>

\* C4: for a message whose trimmed text does not start with the prefix no
\* handler is invoked and nothing is sent, neither a command reply nor the
\* generic error reply.
C4_NoPrefixNoReply ==
    \A i \in 1..Len(msgs) :
        ~StartsWith(Trim(msgs[i].text), PREFIX) =>
            /\ msgs[i].handler = "none"
            /\ msgs[i].sent = <<>>
            /\ ~msgs[i].raised

\* A message delivered while ready whose text holds a command name right
\* after as many characters as the prefix has, but not the prefix.
C4_Witness ==
    \E i \in 1..Len(msgs) :
        LET body == Trim(msgs[i].text)
        IN  /\ msgs[i].ready
            /\ ~StartsWith(body, PREFIX)
            /\ Len(body) >= Len(PREFIX)
            /\ ParseCommand(PREFIX, body) \in CommandNames
            /\ msgs[i].sent = <<>>
            /\ msgs[i].pc = "done"

\* C5: for a message that starts with the prefix followed by a command name
\* that is not ping, alive, owner or help (the empty name included) nothing
\* is sent and no error is raised.
C5_UnknownCommandNoReply ==
    \A i \in 1..Len(msgs) :
        LET body == Trim(msgs[i].text)
        IN  (StartsWith(body, PREFIX)
                /\ ParseCommand(PREFIX, body) \notin CommandNames) =>
                /\ msgs[i].handler = "none"
                /\ msgs[i].sent = <<>>
                /\ ~msgs[i].raised
                /\ msgs[i].pc = "done"
                /\ ~unhandled

\* A message with an unknown, non-empty command name delivered while ready.
C5_Witness ==
    \E i \in 1..Len(msgs) :
        LET body == Trim(msgs[i].text)
        IN  /\ msgs[i].ready
            /\ StartsWith(body, PREFIX)
            /\ ParseCommand(PREFIX, body) \notin CommandNames
            /\ ParseCommand(PREFIX, body) # <<>>
            /\ msgs[i].pc = "done"

IsErrorReply(o) == o = ErrorReply
ErrorReplies(m) == Len(SelectSeq(m.sent, IsErrorReply))

\* C6: when a handler raises, exactly one generic failure reply is attempted
\* for that message, and none otherwise; no error leaves the message
\* callback, the process keeps running, and a command delivered while ready
\* is dispatched also when an earlier callback has raised.
C6_HandlerErrorsContained ==
    /\ \A i \in 1..Len(msgs) :
        /\ msgs[i].pc # "unhandled"
        /\ msgs[i].raised => ErrorReplies(msgs[i]) = 1
        /\ ~msgs[i].raised => ErrorReplies(msgs[i]) = 0
        /\ (msgs[i].ready /\ Dispatch(TRUE, PREFIX, msgs[i].text) # "none") =>
               (msgs[i].handler # "none" /\ msgs[i].sent # <<>>)
    /\ (\E i \in 1..Len(msgs) : msgs[i].raised) => (running /\ ~unhandled)

\* A callback whose handler raised has returned after its generic reply, and
\* a command delivered after the handler had raised was dispatched and
\* answered.
C6_Witness ==
    \E i, j \in 1..Len(msgs) :
        /\ i < j
        /\ msgs[i].raised /\ msgs[i].pc = "done"
        /\ msgs[j].afterError /\ msgs[j].handler # "none"
        /\ ~msgs[j].raised /\ msgs[j].pc = "done"

\* C7: GET /api/qr answers 404 exactly when qrCodeData is null and answers
\* with the stored payload otherwise, and hasQR of GET /api/status agrees.
C7_QrEndpoint ==
    /\ (ApiQr.code = 404) <=> (qrCodeData = Null)
    /\ qrCodeData # Null =>
           (ApiQr.code = 200 /\ ApiQr.body = [qr |-> qrCodeData])
    /\ ApiStatus.body.hasQR <=> (ApiQr.code # 404)
    /\ response.route = "/api/qr" =>
           /\ (response.code = 404) <=> (qrCodeData = Null)
           /\ response.code # 404 =>
                  (response.code = 200 /\ response.body = [qr |-> qrCodeData])
    /\ response.route = "/api/status" =>
           (response.body.hasQR <=> (qrCodeData # Null))

\* GET /api/qr has just answered with the stored image while the bot is ready.
C7_Witness ==
    /\ response.route = "/api/qr"
    /\ response.code = 200
    /\ qrCodeData # Null
    /\ isReady

IsDigit(c) == c \in Digits

\* C8: the number forwarded to client.requestPairingCode is the submitted
\* string with every non-digit removed and the digits in their order.
C8_ForwardedDigitsOnly ==
    \A r \in pairPending :
        /\ r.cleanNumber = SelectSeq(r.phoneNumber, IsDigit)
        /\ \A k \in 1..Len(r.cleanNumber) : r.cleanNumber[k] \in Digits
        /\ r.phoneNumber = ExamplePhone =>
               r.cleanNumber = <<"1","2","3","4","5","6","7","8","9","0","0">>

\* "+1 (234) 567-8900" has been forwarded as "12345678900".
C8_Witness ==
    \E r \in pairPending :
        /\ r.phoneNumber = ExamplePhone
        /\ r.cleanNumber = <<"1","2","3","4","5","6","7","8","9","0","0">>

FailedPairingResponse(r) == r.route = PairingRoute /\ r.code # 200

\* C9 as claimed: every failed pairing request is answered 500 and leaves
\* isReady, clientStatus, qrCodeData and pairingCode as they were.
C9_FailedPairingAnswers500 ==
    [][FailedPairingResponse(response') =>
           (response'.code = 500 /\ UNCHANGED statusVars)]_vars

\* C9 as amended: a failed pairing request is answered 500 with the error
\* detail, or 400 when the phone number is missing or empty; a rejected
\* client.requestPairingCode is answered 500; the step that answers leaves
\* isReady, clientStatus, qrCodeData and pairingCode as they were.
C9_FailedPairingLeavesState ==
    [][FailedPairingResponse(response') =>
           /\ UNCHANGED statusVars
           /\ response'.code \in {400, 500}
           /\ response'.code = 400 =>
                  /\ response'.body = [error |-> "Phone number is required"]
                  /\ pairPending' = pairPending
           /\ response'.code = 500 =>
                  response'.body.error = "Failed to generate pairing code"
           /\ pairPending' # pairPending =>
                  (response'.code = 500 /\ response'.body.details = "Error")]_vars

\* client.requestPairingCode has just rejected while an earlier code is
\* stored: the answer is 500 and the code is still there.
C9_Witness ==
    /\ response.route = PairingRoute
    /\ response.code = 500
    /\ response.body.details = "Error"
    /\ pairingCode # Null

\* C10: a step of the dispatcher or of a command handler (a change of msgs),
\* a read endpoint answering, and GET / from its request to its answer (a
\* change of sendFiles) leave isReady, clientStatus, qrCodeData and
\* pairingCode unchanged.
C10_DispatcherAndReadsLeaveStatus ==
    [][(msgs' # msgs \/ sendFiles' # sendFiles \/ response'.route \in ReadRoutes) =>
           UNCHANGED statusVars]_vars

\* A ping handler ran both of its sends to completion although the bot was
\* disconnected meanwhile, and GET /api/status has just answered.
C10_Witness ==
    /\ response.route = "/api/status"
    /\ ~isReady
    /\ \E i \in 1..Len(msgs) :
        /\ msgs[i].handler = "ping"
        /\ Len(msgs[i].sent) = 2
        /\ msgs[i].pc = "done"

\* C12: handling a disconnected event sets isReady to false and the status
\* to 'Disconnected', whatever the state before; from then until the next
\* ready event isReady stays false, every message delivered is discarded
\* and GET /api/health reports 'not ready'; only a ready event ends that.
C12_DisconnectedUntilReady ==
    [][/\ (disconnected' /\ (~disconnected \/ timers' \ timers # {})) =>
              (isReady' = FALSE /\ clientStatus' = "Disconnected")
       /\ disconnected' =>
              /\ ~isReady'
              /\ ApiHealth'.body.bot = "not ready"
              /\ response'.route = "/api/health" =>
                     response'.body.bot = "not ready"
       /\ (disconnected /\ Len(msgs') > Len(msgs)) =>
              /\ msgs'[Len(msgs')].handler = "none"
              /\ msgs'[Len(msgs')].sent = <<>>
              /\ msgs'[Len(msgs')].pc = "done"
       /\ (disconnected /\ ~disconnected') =>
              (isReady' /\ clientStatus' = "Connected and Ready")]_vars

\* The bot was ready and answered a command, was then disconnected, the
\* same command delivered since was discarded, and GET /api/health has
\* just reported 'not ready'.
C12_Witness ==
    /\ disconnected
    /\ response.route = "/api/health"
    /\ response.body.bot = "not ready"
    /\ \E i, j \in 1..Len(msgs) :
        /\ i < j
        /\ msgs[i].ready /\ msgs[i].handler # "none"
        /\ ~msgs[j].ready /\ msgs[j].sent = <<>>

\* C14: a callback suspended at a send that does not complete blocks nothing
\* else: a message delivered while ready with a command gets its handler and
\* its first send at delivery, whatever the earlier callbacks are doing, and
\* a read of /api/status, /api/qr or /api/health answers with the current
\* state.
C14_HungSendBlocksOnlyItself ==
    /\ \A j \in 1..Len(msgs) :
           (msgs[j].ready /\ Dispatch(TRUE, PREFIX, msgs[j].text) # "none") =>
               /\ msgs[j].handler = Dispatch(TRUE, PREFIX, msgs[j].text)
               /\ Len(msgs[j].sent) >= 1
    /\ response.route \in ApiRoutes => response = ReadResponse(response.route)

\* The first send of a ping is still pending while a command delivered
\* after it has been answered and has returned, and GET /api/status has
\* just answered.
C14_Witness ==
    /\ response.route = "/api/status"
    /\ \E i, j \in 1..Len(msgs) :
        /\ i < j
        /\ msgs[i].pc = "ping:placeholder"
        /\ msgs[j].handler # "none"
        /\ ~msgs[j].raised
        /\ msgs[j].pc = "done"

\* C15: a signal handler reaches process.exit(0) only after its
\* client.destroy() call has completed, the process exits with code 0
\* through a signal handler only, a completed destroy is followed by the
\* exit at once, and every handler started leads to the exit of the process
\* unless its destroy fails.
C15_ExitOnlyAfterDestroy ==
    /\ [](\A h \in 1..Len(signalHandlers) :
             signalHandlers[h].pc = "exited" => signalHandlers[h].destroyed)
    /\ [][(running /\ ~running' /\ ~unhandled') =>
             \E h \in 1..Len(signalHandlers') :
                 signalHandlers'[h].pc = "exited" /\ signalHandlers'[h].destroyed]_vars
    /\ [](\A h \in 1..Len(signalHandlers) :
             signalHandlers[h].destroyed => ~running)
    /\ \A h \in 1..MaxSignals :
           (h <= Len(signalHandlers) /\ signalHandlers[h].pc = "destroy")
               ~> (~running \/ (h <= Len(signalHandlers) /\
                                 signalHandlers[h].pc = "rejected"))

\* SIGINT and then SIGTERM were delivered; the process has exited through
\* the handler of one of them, whose destroy has completed, while the
\* destroy of the other is still pending.
C15_Witness ==
    /\ ~running
    /\ \E h, g \in 1..Len(signalHandlers) :
        /\ signalHandlers[h].pc = "exited"
        /\ signalHandlers[h].destroyed
        /\ signalHandlers[g].pc = "destroy"
        /\ signalHandlers[g].signal # signalHandlers[h].signal

\* C16: for a ping delivered while ready the placeholder reply is issued
\* first and alone; the pong (a reply in the first program, an edit in the
\* second) is issued in the step in which the placeholder send completes,
\* not before, and carries the clock at that step minus the clock at the
\* start of the handler, a non-negative integer; when both sends succeed
\* exactly these two operations were issued, in this order.
C16_PingPlaceholderThenPong ==
    [][\A i \in 1..Len(msgs') :
          LET m == msgs'[i]
          IN  m.handler = "ping" =>
                /\ m.sent[1] = PingPlaceholder
                /\ m.pc = "ping:placeholder" => m.sent = <<PingPlaceholder>>
                /\ i > Len(msgs) => (m.start = now /\ m.pc = "ping:placeholder")
                /\ (i <= Len(msgs) /\ msgs[i].pc = "ping:placeholder"
                        /\ m.pc = "ping:pong") =>
                       /\ m.sent = <<PingPlaceholder, Pong(now - msgs[i].start)>>
                       /\ now - msgs[i].start \in Nat
                       /\ m.sent[2].op = IF variant = 1 THEN "reply" ELSE "edit"
                /\ m.pc = "ping:pong" => Len(m.sent) = 2
                /\ (m.pc = "done" /\ ~m.raised) =>
                       /\ Len(m.sent) = 2
                       /\ m.sent[2].text = "Pong!"
                       /\ m.sent[2].latency \in Nat
      ]_vars

\* The first token of s when s is split on runs of white space of any kind.
RECURSIVE FirstToken(_)
FirstToken(s) ==
    IF s = <<>> \/ Head(s) \in WhiteSpace THEN <<>>
    ELSE <<Head(s)>> \o FirstToken(Tail(s))

\* C17: for a message delivered while ready whose trimmed text starts with
\* the prefix, the handler invoked is the one of the lower-cased first token
\* of the rest, the rest being trimmed and split on runs of white space of
\* any kind (spaces, tabs, newlines).
C17_CommandIsFirstWhitespaceToken ==
    \A i \in 1..Len(msgs) :
        LET body == Trim(msgs[i].text)
        IN  (msgs[i].ready /\ StartsWith(body, PREFIX)) =>
                msgs[i].handler =
                    Handler(ToLowerCase(FirstToken(Trim(Slice(body, Len(PREFIX))))))

\* The state of the specified connection state machine a status string
\* stands for.
ConnectionState(status) ==
    CASE status = "Initializing..."                  -> "Initializing"
      [] status = "QR Code Ready - Scan to connect"  -> "QRPending"
      [] status \in {"Authenticated - Loading...", "Authenticated"}
                                                     -> "Authenticating"
      [] status = "Connected and Ready"              -> "Ready"
      [] status = "Authentication Failed"            -> "AuthFailed"
      [] status = "Disconnected"                     -> "Disconnected"
      [] status \in {LoadingStatus(percent) : percent \in Percents}
                                                     -> "Loading"
      [] OTHER                                       -> "InitializationFailed"

\* The transitions of the specified state machine.
SpecifiedTransition(from, to) ==
    CASE to = "QRPending"      -> from = "Initializing"
      [] to = "Authenticating" -> from # "Ready"
      [] to = "Ready"          -> from = "Authenticating"
      [] to = "Loading"        -> from = "Initializing"
      [] to = "AuthFailed"     -> TRUE
      [] to = "Disconnected"   -> TRUE
      [] OTHER                 -> FALSE

\* C18: every change of the connection state made by a lifecycle callback
\* is a transition of the specified state machine; in particular the state
\* Ready, with isReady true, is left only for AuthFailed or Disconnected.
C18_LifecycleFollowsStateMachine ==
    [][LET from == ConnectionState(clientStatus)
           to   == ConnectionState(clientStatus')
       IN  (from # to /\ to # "InitializationFailed") =>
               SpecifiedTransition(from, to)]_vars

\* C19: isReady is true exactly when clientStatus is 'Connected and Ready',
\* and GET /api/status reports the two accordingly.
C19_ReadyFlagAgreesWithStatus ==
    /\ isReady <=> (clientStatus = "Connected and Ready")
    /\ ApiStatus.body.isReady <=> (ApiStatus.body.status = "Connected and Ready")

\* C20: nothing is sent while isReady is false: a step that adds an outbound
\* operation to a message is taken with isReady true.
C20_NoSendWhileNotReady ==
    [][\A i \in 1..Len(msgs') :
          (IF i <= Len(msgs) THEN Len(msgs'[i].sent) > Len(msgs[i].sent)
                             ELSE msgs'[i].sent # <<>>) =>
              isReady]_vars

\* C21: once every encoding of the qr events received has finished, with no
\* ready, auth_failure or disconnected event delivered, the stored image and
\* the one GET /api/qr shows are not those of a challenge older than the
\* most recent one.
C21_LatestQrStored ==
    (qrCount > 0 /\ qrPending = {}) =>
        \A n \in 1..(qrCount - 1) :
            /\ qrCodeData # ToDataURL(QrChallenges[n])
            /\ ApiQr.body # [qr |-> ToDataURL(QrChallenges[n])]

====
